---------------------------- MODULE Spec2Model ----------------------------
(* Model of the daily video-merge pipeline of n8n-cleaner-app:             *)
(*   src/main.py          merge_today_videos_job, merge_today_videos,      *)
(*                        merge_videos_sync                                 *)
(*   src/merge_helper.py  merge_videos_fast                                 *)
(* Strings are sequences of one-character strings, so that parsing,        *)
(* formatting, regex search and sorting are computed as the code does.     *)
EXTENDS Integers, Sequences, FiniteSets, TLC

(***************************************************************************)
(* Bounds of the model.                                                    *)
(***************************************************************************)
\* most files a source tree holds when the first run starts
MaxFiles == 3
\* most orchestration runs in one behaviour
MaxRuns == 2

(***************************************************************************)
(* Characters and strings.                                                 *)
(***************************************************************************)
Digits == <<"0", "1", "2", "3", "4", "5", "6", "7", "8", "9">>

UpperChars ==
  <<"A", "B", "C", "D", "E", "F", "G", "H", "I", "J", "K", "L", "M",
    "N", "O", "P", "Q", "R", "S", "T", "U", "V", "W", "X", "Y", "Z">>

LowerChars ==
  <<"a", "b", "c", "d", "e", "f", "g", "h", "i", "j", "k", "l", "m",
    "n", "o", "p", "q", "r", "s", "t", "u", "v", "w", "x", "y", "z">>

\* the characters of the model in code point order (str comparison of sort)
CodeOrder ==
  <<" ", "'", "-", ".", "/">> \o Digits \o UpperChars \o <<"\\", "_">> \o LowerChars

Range(s) == {s[i] : i \in 1..Len(s)}

IsDigit(c) == c \in Range(Digits)

DigitVal(c) == (CHOOSE i \in 1..Len(Digits) : Digits[i] = c) - 1

Ord(c) == CHOOSE i \in 1..Len(CodeOrder) : CodeOrder[i] = c

\* str.lower() on one character
LowerChar(c) ==
  IF c \in Range(UpperChars)
  THEN LowerChars[CHOOSE i \in 1..Len(UpperChars) : UpperChars[i] = c]
  ELSE c

\* str.lower()
Lower(s) == [i \in 1..Len(s) |-> LowerChar(s[i])]

\* str.replace("\\", "/")
ReplaceBackslash(s) == [i \in 1..Len(s) |-> IF s[i] = "\\" THEN "/" ELSE s[i]]

\* a < b on str: lexicographic by code point
RECURSIVE StrLess(_, _)
StrLess(a, b) ==
  IF b = <<>> THEN FALSE
  ELSE IF a = <<>> THEN TRUE
  ELSE IF a[1] = b[1] THEN StrLess(Tail(a), Tail(b))
  ELSE Ord(a[1]) < Ord(b[1])

(***************************************************************************)
(* Dates: datetime.strptime(date_now, "%Y-%m-%d") and strftime("%Y-%m-%d"). *)
(***************************************************************************)
IsLeap(y) == (y % 4 = 0 /\ y % 100 # 0) \/ y % 400 = 0

DaysIn(y, m) ==
  IF m = 2 THEN (IF IsLeap(y) THEN 29 ELSE 28)
  ELSE IF m \in {4, 6, 9, 11} THEN 30 ELSE 31

NoDate == [ok |-> FALSE, y |-> 0, m |-> 0, d |-> 0]

\* %m of strptime: 1[0-2]|0[1-9]|[1-9]; 0 when the text is none of them
MonthField(t) ==
  IF Len(t) = 1 /\ IsDigit(t[1]) /\ t[1] # "0" THEN DigitVal(t[1])
  ELSE IF Len(t) = 2 /\ t[1] = "0" /\ IsDigit(t[2]) /\ t[2] # "0" THEN DigitVal(t[2])
  ELSE IF Len(t) = 2 /\ t[1] = "1" /\ t[2] \in {"0", "1", "2"} THEN 10 + DigitVal(t[2])
  ELSE 0

\* %d of strptime: 3[0-1]|[1-2]\d|0[1-9]|[1-9]| [1-9]; 0 when none of them
DayField(t) ==
  IF Len(t) = 1 /\ IsDigit(t[1]) /\ t[1] # "0" THEN DigitVal(t[1])
  ELSE IF Len(t) = 2 /\ t[1] \in {"0", " "} /\ IsDigit(t[2]) /\ t[2] # "0"
    THEN DigitVal(t[2])
  ELSE IF Len(t) = 2 /\ t[1] \in {"1", "2"} /\ IsDigit(t[2])
    THEN 10 * DigitVal(t[1]) + DigitVal(t[2])
  ELSE IF Len(t) = 2 /\ t[1] = "3" /\ t[2] \in {"0", "1"} THEN 30 + DigitVal(t[2])
  ELSE 0

\* datetime.strptime(s, "%Y-%m-%d"): ok = FALSE stands for ValueError
Strptime(s) ==
  IF Len(s) < 8 \/ Len(s) > 10 THEN NoDate
  ELSE IF ~(\A i \in 1..4 : IsDigit(s[i])) \/ s[5] # "-" THEN NoDate
  ELSE IF ~(\E j \in 7..8 : s[j] = "-") THEN NoDate
  ELSE
    LET j == CHOOSE k \in 7..8 : s[k] = "-" /\ \A h \in 7..(k - 1) : s[h] # "-"
        y == 1000 * DigitVal(s[1]) + 100 * DigitVal(s[2])
               + 10 * DigitVal(s[3]) + DigitVal(s[4])
        m == MonthField(SubSeq(s, 6, j - 1))
        d == DayField(SubSeq(s, j + 1, Len(s)))
    IN IF y >= 1 /\ m >= 1 /\ d >= 1 /\ d <= DaysIn(y, m)
       THEN [ok |-> TRUE, y |-> y, m |-> m, d |-> d]
       ELSE NoDate

TwoDigits(n) == <<Digits[(n \div 10) + 1], Digits[(n % 10) + 1]>>

\* strftime("%Y-%m-%d") of a date with a four-digit year
Strftime(dt) ==
  <<Digits[(dt.y \div 1000) + 1], Digits[((dt.y \div 100) % 10) + 1]>>
    \o TwoDigits(dt.y % 100) \o <<"-">> \o TwoDigits(dt.m) \o <<"-">> \o TwoDigits(dt.d)

(***************************************************************************)
(* File names, paths and the files the model draws source trees from.      *)
(***************************************************************************)
Date1 == <<"2", "0", "2", "4", "-", "0", "5", "-", "0", "1">>

Date2 == <<"2", "0", "2", "4", "-", "0", "5", "-", "0", "2">>

ExtMp4 == <<".", "m", "p", "4">>

SubDir1 == <<"s", "1", "/">>

SubDir2 == <<"s", "2", "/">>

\* The files of the model are named by short identifiers; Path gives the path
\* of each relative to STATICFILES_DIR: dir is "" or ends in "/".
PathOf(dir, name) == [dir |-> dir, name |-> name]

\* a video of Date1
FileA == "a"

\* a video of Date1 with an upper-case extension
FileB == "b"

\* a video of Date2
FileC == "c"

\* two videos of Date1 with the same file name, in two subdirectories
FileS1 == "s1/d"

FileS2 == "s2/d"

\* a date-stamped file that is no video
FileTxt == "n"

\* the file a merge for Date1 writes
FileOut1 == "out1"

\* the file a merge for Date2 writes
FileOut2 == "out2"

NoFile == "none"

\* the files a source tree may hold when the first run starts
Catalog == {FileA, FileB, FileC, FileS1, FileS2, FileTxt, FileOut1}

Files == Catalog \cup {FileOut2}

PathTable(f) ==
  CASE f = FileA -> PathOf(<<>>, <<"a", "_">> \o Date1 \o ExtMp4)
    [] f = FileB -> PathOf(<<>>, <<"b", "_">> \o Date1 \o <<".", "M", "K", "V">>)
    [] f = FileC -> PathOf(<<>>, <<"c", "_">> \o Date2 \o ExtMp4)
    [] f = FileS1 -> PathOf(SubDir1, <<"d", "_">> \o Date1 \o ExtMp4)
    [] f = FileS2 -> PathOf(SubDir2, <<"d", "_">> \o Date1 \o ExtMp4)
    [] f = FileTxt -> PathOf(<<>>, <<"n", "_">> \o Date1 \o <<".", "t", "x", "t">>)
    [] f = FileOut1 -> PathOf(<<>>, Date1 \o ExtMp4)
    [] f = FileOut2 -> PathOf(<<>>, Date2 \o ExtMp4)
    [] OTHER -> PathOf(<<>>, <<>>)

Paths == [f \in Files \cup {NoFile} |-> PathTable(f)]

Path(f) == Paths[f]

\* item.name
Name(f) == Path(f).name

\* the file at a path
FileAt(path) == IF \E f \in Files : Path(f) = path
                THEN CHOOSE f \in Files : Path(f) = path
                ELSE NoFile

\* STATICFILES_DIR = Path("n8n_ffmpeg"), made absolute
RootPath ==
  <<"/", "a", "p", "p", "/", "n", "8", "n", "_", "f", "f", "m", "p", "e", "g", "/">>

\* str(video_file.absolute())
AbsPath(f) == RootPath \o Path(f).dir \o Name(f)

\* the content of a file: what wrote it, in which run, and from which inputs
Original == [kind |-> "original", run |-> 0, method |-> "none", inputs |-> <<>>, size |-> 1]

Merged(run, method, inputs) ==
  [kind |-> "merged", run |-> run, method |-> method, inputs |-> inputs, size |-> 1]

Partial(run, method, inputs) ==
  [kind |-> "partial", run |-> run, method |-> method, inputs |-> inputs, size |-> 1]

(***************************************************************************)
(* Candidate discovery: date_pattern.search, Path.suffix, list.sort.       *)
(***************************************************************************)
\* re.compile(r"(\d{4}-\d{2}-\d{2})") matches name at position i
DateAt(name, i) ==
  /\ i + 9 <= Len(name)
  /\ \A k \in {0, 1, 2, 3, 5, 6, 8, 9} : IsDigit(name[i + k])
  /\ name[i + 4] = "-"
  /\ name[i + 7] = "-"

\* DateSearch returning the last match of the pattern in the name
DateSearchLast(name) ==
  IF \E i \in 1..Len(name) : DateAt(name, i)
  THEN LET i == CHOOSE k \in 1..Len(name) :
                  DateAt(name, k) /\ \A h \in (k + 1)..Len(name) : ~DateAt(name, h)
       IN SubSeq(name, i, i + 9)
  ELSE <<>>

\* date_pattern.search(name): group(1) of the first match, "" for None
DateSearch(name) ==
  IF \E i \in 1..Len(name) : DateAt(name, i)
  THEN LET i == CHOOSE k \in 1..Len(name) :
                  DateAt(name, k) /\ \A h \in 1..(k - 1) : ~DateAt(name, h)
       IN SubSeq(name, i, i + 9)
  ELSE <<>>

\* Path.suffix: from the last "." unless it starts or ends the name
Suffix(name) ==
  LET dots == {i \in 1..Len(name) : name[i] = "."}
  IN IF dots = {} THEN <<>>
     ELSE LET i == CHOOSE k \in dots : \A h \in dots : h <= k
          IN IF i > 1 /\ i < Len(name) THEN SubSeq(name, i, Len(name)) ELSE <<>>

video_extensions ==
  { ExtMp4, <<".", "a", "v", "i">>, <<".", "m", "o", "v">>, <<".", "m", "k", "v">>,
    <<".", "f", "l", "v">>, <<".", "w", "m", "v">>, <<".", "w", "e", "b", "m">> }

\* IsCandidate with the suffix compared as it is spelled
IsCandidateCaseSensitive(f, today_str) ==
  /\ Suffix(Name(f)) \in video_extensions
  /\ DateSearch(Name(f)) # <<>>
  /\ DateSearch(Name(f)) = today_str

\* item.suffix.lower() in video_extensions and the first date of the name
\* equals today_str
IsCandidate(f, today_str) ==
  /\ Lower(Suffix(Name(f))) \in video_extensions
  /\ DateSearch(Name(f)) # <<>>
  /\ DateSearch(Name(f)) = today_str

\* the loop over STATICFILES_DIR.rglob("*") in enumeration order items
RECURSIVE Collect(_, _)
Collect(items, today_str) ==
  IF items = <<>> THEN <<>>
  ELSE (IF IsCandidate(Head(items), today_str) THEN <<Head(items)>> ELSE <<>>)
         \o Collect(Tail(items), today_str)

\* one step of a stable sort: x goes after every element whose key is not greater
RECURSIVE InsertByName(_, _)
InsertByName(sorted, x) ==
  IF sorted = <<>> THEN <<x>>
  ELSE IF StrLess(Name(x), Name(Head(sorted))) THEN <<x>> \o sorted
  ELSE <<Head(sorted)>> \o InsertByName(Tail(sorted), x)

RECURSIVE SortFrom(_, _)
SortFrom(sorted, rest) ==
  IF rest = <<>> THEN sorted
  ELSE SortFrom(InsertByName(sorted, Head(rest)), Tail(rest))

\* video_files.sort(key=lambda x: x.name): stable, ascending by name (the
\* list is bound to v so that it is evaluated once)
SortByName(files) == CHOOSE s \in {SortFrom(<<>>, v) : v \in {files}} : TRUE

\* every order in which rglob may enumerate the files of a tree
RECURSIVE Enumerations(_)
Enumerations(files) ==
  IF files = {} THEN {<<>>}
  ELSE UNION {{<<f>> \o e : e \in Enumerations(files \ {f})} : f \in files}

\* output_path = STATICFILES_DIR / f"{today_str}.mp4"
OutputPath(today_str) == FileAt(PathOf(<<>>, today_str \o ExtMp4))

\* the line of the concat manifest written for one input
ManifestLine(f) ==
  <<"f", "i", "l", "e", " ", "'">> \o ReplaceBackslash(AbsPath(f)) \o <<"'", "\n">>

Manifest(video_files) == [i \in 1..Len(video_files) |-> ManifestLine(video_files[i])]

(***************************************************************************)
(* State.                                                                  *)
(***************************************************************************)
VARIABLES
  rootExists,   \* STATICFILES_DIR.exists()
  fs,           \* the files under STATICFILES_DIR: path -> content
  tmp,          \* the files of the temp directory: name -> who made it, lines
  run,          \* the number of the current orchestration run, 0 before the first
  kind,         \* "manual" (merge_today_videos) or "job" (merge_today_videos_job)
  pc,           \* where the run is
  date_now,     \* the query parameter of the manual trigger
  today_str,    \* local of the handler, "" while unset
  video_files,  \* local of the handler
  output_path,  \* local of the handler
  result,       \* local of the handler: the dict a strategy returned
  concat_file,  \* local of the running strategy: its manifest id, 0 for none
  response,     \* what the run gave its caller (a JSONResponse) or its log
  calls,        \* the strategy invocations of this run, in order
  fs0,          \* fs when the run started
  tmp0,         \* tmp when the run started
  raised,       \* an exception reached the except clause of the handler
  escaped,      \* an exception left a handler or a strategy uncaught
  scheduler,    \* the AsyncIOScheduler: whether it runs, the ids of its jobs
  disk,         \* the file store: absolute path -> "file" or "dir"
  touched,      \* what the last file-store request read, wrote or deleted
  reply,        \* what the last file-store request answered
  requests,     \* the number of file-store requests served
  tasks,        \* the concurrent orchestration runs: the locals of each handler
  executors,    \* each ThreadPoolExecutor: its queue and the calls on its threads
  finished      \* for each output path, what the transcoder that ended well last wrote

\* the state of the file-store endpoints
storeVars == <<disk, touched, reply, requests>>

\* the state of the runs that share the executor
poolVars == <<tasks, executors, finished>>

\* the state outside the single orchestration run
restVars == <<storeVars, poolVars>>

\* the state of the single orchestration run without the trees
runVars ==
  <<run, kind, pc, date_now, today_str, video_files, output_path, result, concat_file,
    response, calls, fs0, tmp0, raised, escaped, scheduler>>

\* the state of one orchestration run and of the trees it works on
mergeVars ==
  <<rootExists, fs, tmp, run, kind, pc, date_now, today_str, video_files,
    output_path, result, concat_file, response, calls, fs0, tmp0, raised, escaped,
    scheduler>>

\* the sizes the transcoder's output may have
MaxSize == 2

Sizes == 1..MaxSize

\* the dates datetime.now() may give
Nows == {Strptime(Date1), Strptime(Date2)}

Text(given, text) == [given |-> given, text |-> text]

\* the values of ?date_now= the model tries: absent, empty, two dates, a date
\* without zero padding, a month out of range, a day out of range, other text
DateInputs ==
  { Text(FALSE, <<>>), Text(TRUE, <<>>), Text(TRUE, Date1), Text(TRUE, Date2),
    Text(TRUE, <<"2", "0", "2", "4", "-", "5", "-", "1">>),
    Text(TRUE, <<"2", "0", "2", "4", "-", "1", "3", "-", "4", "0">>),
    Text(TRUE, <<"2", "0", "2", "4", "-", "0", "2", "-", "3", "0">>),
    Text(TRUE, <<"t", "o", "d", "a", "y">>) }

NoResult ==
  [status |-> "none", message |-> "none", n |-> 0, output_file |-> <<>>, output_size |-> 0]

NoResponse ==
  [code |-> 0, level |-> "none", status |-> "none", message |-> "none",
   output_file |-> <<>>, output_size |-> 0, input_files |-> <<>>]

\* JSONResponse(content={"status": "error", "message": message}, status_code=code)
ErrorResponse(code, message) ==
  [NoResponse EXCEPT !.code = code, !.status = "error", !.message = message]

\* logger.error / logger.warning of the scheduled job
LogOutcome(level, message) ==
  [NoResponse EXCEPT !.level = level, !.status = "error", !.message = message]

Names(files) == [i \in 1..Len(files) |-> Name(files[i])]

(***************************************************************************)
(* The handlers up to their first await: date, discovery, ordering.        *)
(***************************************************************************)
\* "if date_now:" of merge_today_videos
Truthy(dn) == dn.given /\ dn.text # <<>>

\* NoCandidates without the early return
NoCandidatesSkipped(files) == FALSE

\* "if not video_files:"
NoCandidates(files) == files = <<>>

\* ManualExcept catching ValueError only: other exceptions leave the handler
ManualExceptNarrow(st) == [st EXCEPT !.pc = "done", !.raised = TRUE, !.escaped = TRUE]

\* "except Exception as e:" of merge_today_videos: a 500 response
ManualExcept(st) ==
  [st EXCEPT !.pc = "done", !.raised = TRUE,
             !.response = ErrorResponse(500, "exception")]

\* "except Exception as e:" of merge_today_videos_job: logger.error
JobExcept(st) ==
  [st EXCEPT !.pc = "done", !.raised = TRUE,
             !.response = LogOutcome("error", "exception")]

\* the locals a handler holds when it reaches an await or returns
Locals ==
  [pc |-> "done", today_str |-> <<>>, video_files |-> <<>>, output_path |-> NoFile,
   response |-> NoResponse, raised |-> FALSE, escaped |-> FALSE]

\* merge_today_videos, lines 723-750: the target date and the check of the
\* root; now is what datetime.now() gives, read only without a date_now
ManualDate(dn, now, exists) ==
  LET current_date == IF Truthy(dn) THEN Strptime(dn.text) ELSE now
  IN IF ~current_date.ok
     THEN [Locals EXCEPT !.response = ErrorResponse(400, "invalid_date")]
     ELSE IF ~exists
     THEN [Locals EXCEPT !.today_str = Strftime(current_date),
                         !.response = ErrorResponse(404, "folder_not_found")]
     ELSE [Locals EXCEPT !.today_str = Strftime(current_date), !.pc = "discovering"]

\* merge_today_videos, lines 752-775: items is the order rglob enumerates
\* in, fault whether is_file() raises on an item
ManualDiscover(st, items, fault) ==
  IF fault THEN ManualExcept(st)
  ELSE
    LET found == Collect(items, st.today_str)
    IN IF NoCandidates(found)
       THEN [st EXCEPT !.pc = "done",
                       !.response = ErrorResponse(404, "no_video_files")]
       ELSE [st EXCEPT !.pc = "fast_queued",
                       !.video_files = SortByName(found),
                       !.output_path = OutputPath(st.today_str)]

\* merge_today_videos_job, lines 88-101
JobDate(now, exists) ==
  IF ~exists
  THEN [Locals EXCEPT !.today_str = Strftime(now),
                      !.response = LogOutcome("error", "folder_not_found")]
  ELSE [Locals EXCEPT !.today_str = Strftime(now), !.pc = "discovering"]

\* JobDiscover without the sort of line 118
JobDiscoverUnsorted(st, items, fault) ==
  IF fault THEN JobExcept(st)
  ELSE
    LET found == Collect(items, st.today_str)
    IN IF NoCandidates(found)
       THEN [st EXCEPT !.pc = "done",
                       !.response = LogOutcome("warning", "no_video_files")]
       ELSE [st EXCEPT !.pc = "fast_queued",
                       !.video_files = found,
                       !.output_path = OutputPath(st.today_str)]

\* merge_today_videos_job, lines 103-124
JobDiscover(st, items, fault) ==
  IF fault THEN JobExcept(st)
  ELSE
    LET found == Collect(items, st.today_str)
    IN IF NoCandidates(found)
       THEN [st EXCEPT !.pc = "done",
                       !.response = LogOutcome("warning", "no_video_files")]
       ELSE [st EXCEPT !.pc = "fast_queued",
                       !.video_files = SortByName(found),
                       !.output_path = OutputPath(st.today_str)]

\* an invocation handed to the executor
Call(fn, files, out) ==
  [fn |-> fn, video_files |-> files, output_path |-> out, status |-> "queued",
   manifest |-> 0, message |-> "none"]

(***************************************************************************)
(* The scheduler: lifespan adds the job with a cron trigger and starts it. *)
(***************************************************************************)
JobId == "merge_today_videos"

\* scheduler.add_job(..., trigger=CronTrigger(hour=18, minute=0), id=JobId,
\* replace_existing=True) and scheduler.start()
Started == [running |-> TRUE, jobs |-> {JobId}]

\* JobEnded for a trigger that fires once: the job leaves the scheduler
JobEndedOneShot(s) == [s EXCEPT !.jobs = {}]

\* the scheduler after a fire of the job has ended, however it ended: a cron
\* trigger always has a next fire time, so the job stays
JobEnded(s) == s

\* the scheduler after a step of a run of kind k that takes the run to at
Fired(k, at) == IF k = "job" /\ at = "done" THEN JobEnded(scheduler) ELSE scheduler

\* no run is in progress and the model may start another
CanStart == pc \in {"idle", "done"} /\ run < MaxRuns /\ scheduler.running

\* the locals of the handler as the state holds them
Current ==
  [pc |-> pc, today_str |-> today_str, video_files |-> video_files,
   output_path |-> output_path, response |-> response, raised |-> raised,
   escaped |-> escaped]

\* the handler goes on with the locals st
Continue(st) ==
  /\ pc' = st.pc
  /\ today_str' = st.today_str
  /\ video_files' = st.video_files
  /\ output_path' = st.output_path
  /\ response' = st.response
  /\ raised' = st.raised
  /\ escaped' = st.escaped

\* a trigger starts run number run + 1
Begin(k, dn, st) ==
  /\ CanStart
  /\ run' = run + 1
  /\ kind' = k
  /\ date_now' = dn
  /\ Continue(st)
  /\ result' = NoResult
  /\ concat_file' = 0
  /\ calls' = <<>>
  /\ fs0' = fs
  /\ tmp0' = tmp
  /\ scheduler' = Fired(k, st.pc)
  /\ UNCHANGED <<rootExists, fs, tmp>>
  /\ UNCHANGED restVars

\* discovery; with candidates, merge_videos_fast is handed to the executor
Scan(k, st) ==
  /\ pc = "discovering"
  /\ kind = k
  /\ Continue(st)
  /\ calls' = IF st.pc = "fast_queued"
              THEN <<Call("merge_videos_fast", st.video_files, st.output_path)>>
              ELSE <<>>
  /\ scheduler' = Fired(k, st.pc)
  /\ UNCHANGED <<rootExists, fs, tmp, run, kind, date_now, result, concat_file, fs0,
                 tmp0>>
  /\ UNCHANGED restVars

\* GET /api/files/merge-today
ManualStart(dn, now) == Begin("manual", dn, ManualDate(dn, now, rootExists))

ManualScan(items, fault) == Scan("manual", ManualDiscover(Current, items, fault))

\* the 18:00 cron trigger
JobStart(now) ==
  /\ JobId \in scheduler.jobs
  /\ Begin("job", Text(FALSE, <<>>), JobDate(now, rootExists))

JobScan(items, fault) == Scan("job", JobDiscover(Current, items, fault))

(***************************************************************************)
(* The strategies: merge_videos_fast and merge_videos_sync.                *)
(* Each runs in an executor thread; the model splits it where the external *)
(* transcoder starts.  What the environment decides is drawn by the        *)
(* actions: hazard (creating or writing the manifest fails), outcome (how  *)
(* ffmpeg ends), size (of what it wrote), gone (the output is deleted by   *)
(* another request before stat() reads it).                                *)
(***************************************************************************)
Hazards == {"ok", "create_fails", "write_fails"}

Outcomes == {"ok", "ffmpeg_error", "ffmpeg_error_partial", "os_error"}

\* tempfile.NamedTemporaryFile(delete=False) and the loop of f.write: the file
\* stays when a write raises, as delete=False and no finally covers the "with"
WriteManifest(t, id, owner, files, hazard) ==
  IF hazard = "create_fails" THEN t
  ELSE IF hazard = "write_fails" THEN t @@ (id :> [owner |-> owner, lines |-> <<>>])
  ELSE t @@ (id :> [owner |-> owner, lines |-> Manifest(files)])

\* Path(concat_file).unlink(missing_ok=True)
Unlink(t, id) == [i \in DOMAIN t \ {id} |-> t[i]]

\* FfmpegRun moving its inputs into the output instead of copying them
FfmpegRunConsuming(files, out, n, method, inputs, outcome, size) ==
  IF outcome = "ok"
  THEN [p \in (DOMAIN files \ Range(inputs)) \cup {out} |->
          IF p = out THEN [Merged(n, method, inputs) EXCEPT !.size = size] ELSE files[p]]
  ELSE files

\* FfmpegRun without overwrite_output(): a file already at out is kept
FfmpegRunKeeping(files, out, n, method, inputs, outcome, size) ==
  IF outcome = "ok" /\ out \notin DOMAIN files
  THEN [p \in DOMAIN files \cup {out} |->
          IF p = out THEN [Merged(n, method, inputs) EXCEPT !.size = size] ELSE files[p]]
  ELSE files

\* ffmpeg ... .overwrite_output().run(): what is at out afterwards
FfmpegRun(files, out, n, method, inputs, outcome, size) ==
  IF outcome = "ok"
  THEN [p \in DOMAIN files \cup {out} |->
          IF p = out THEN [Merged(n, method, inputs) EXCEPT !.size = size] ELSE files[p]]
  ELSE IF outcome = "ffmpeg_error_partial"
  THEN [p \in DOMAIN files \cup {out} |->
          IF p = out THEN Partial(n, method, inputs) ELSE files[p]]
  ELSE files

\* another request deletes the file at p
Deleted(files, p) == [q \in DOMAIN files \ {p} |-> files[q]]

\* output_path.stat().st_size
StatSize(files, p) == files[p].size

\* the dict merge_videos_fast returns on success
FastSuccess(files, out, tree) ==
  [status |-> "success", message |-> "merged_fast_mode", n |-> Len(files),
   output_file |-> Name(out), output_size |-> StatSize(tree, out)]

\* "except ffmpeg.Error" of merge_videos_fast
FastFfmpegError == [NoResult EXCEPT !.status = "error", !.message = "ffmpeg_fast_merge_error"]

\* "except Exception" of merge_videos_fast
FastExcept == [NoResult EXCEPT !.status = "error", !.message = "unexpected_error"]

\* SyncSuccess with the message of merge_videos_fast
SyncSuccessAsFast(files, out, tree) ==
  [status |-> "success", message |-> "merged_fast_mode", n |-> Len(files),
   output_file |-> Name(out), output_size |-> StatSize(tree, out)]

\* the dict merge_videos_sync returns on success
SyncSuccess(files, out, tree) ==
  [status |-> "success", message |-> "merged", n |-> Len(files),
   output_file |-> Name(out), output_size |-> StatSize(tree, out)]

\* "except ffmpeg.Error" of merge_videos_sync
SyncFfmpegError == [NoResult EXCEPT !.status = "error", !.message = "ffmpeg_error"]

\* "except Exception" of merge_videos_sync
SyncExcept == [NoResult EXCEPT !.status = "error", !.message = "unexpected_error"]

\* the last invocation of the run changes state
Mark(status, manifest) ==
  calls' = [calls EXCEPT ![Len(calls)].status = status,
                         ![Len(calls)].manifest = manifest,
                         ![Len(calls)].message = result'.message]

\* FreshName when every manifest is created under one fixed name
FreshNameFixed(t) == 1

\* the name NamedTemporaryFile picks: one no file of the temp directory has
FreshName(t) == CHOOSE id \in 1..(Cardinality(DOMAIN t) + 1) : id \notin DOMAIN t

\* a strategy from its start to the start of ffmpeg, or to its return when
\* the manifest cannot be written
StrategyBegin(at, running, returned, except, hazard) ==
  /\ pc = at
  /\ tmp' = WriteManifest(tmp, FreshName(tmp), <<run, Len(calls)>>, video_files, hazard)
  /\ IF hazard = "ok"
     THEN /\ pc' = running
          /\ concat_file' = FreshName(tmp)
          /\ result' = result
          /\ Mark("running", FreshName(tmp))
     ELSE /\ pc' = returned
          /\ concat_file' = 0
          /\ result' = except
          /\ Mark("error", IF hazard = "create_fails" THEN 0 ELSE FreshName(tmp))
  /\ UNCHANGED <<rootExists, fs, run, kind, date_now, today_str, video_files,
                 output_path, response, fs0, tmp0, raised, escaped, scheduler>>
  /\ UNCHANGED restVars

\* a strategy from the start of ffmpeg to its return: the run, the stat of the
\* output, the "finally" that unlinks the manifest
StrategyRun(at, returned, method, ok, ffmpegError, except, outcome, size, gone) ==
  /\ pc = at
  /\ (gone => outcome = "ok")
  /\ (outcome # "ok" => size = 1)
  /\ LET written == FfmpegRun(fs, output_path, run, method, video_files, outcome, size)
     IN /\ fs' = IF gone THEN Deleted(written, output_path) ELSE written
        /\ result' = IF outcome = "ok" /\ ~gone THEN ok
                     ELSE IF outcome = "ok" \/ outcome = "os_error" THEN except
                     ELSE ffmpegError
  /\ tmp' = Unlink(tmp, concat_file)
  /\ concat_file' = 0
  /\ pc' = returned
  /\ Mark(result'.status, concat_file)
  /\ UNCHANGED <<rootExists, run, kind, date_now, today_str, video_files,
                 output_path, response, fs0, tmp0, raised, escaped, scheduler>>
  /\ UNCHANGED restVars

\* merge_videos_fast, lines 25-34 and the handlers of lines 61-68
FastBegin(hazard) ==
  StrategyBegin("fast_queued", "fast_running", "fast_returned", FastExcept, hazard)

\* merge_videos_fast, lines 36-68
FastRun(outcome, size, gone) ==
  StrategyRun("fast_running", "fast_returned", "fast",
              FastSuccess(video_files, output_path, fs'), FastFfmpegError, FastExcept,
              outcome, size, gone)

\* merge_videos_sync, lines 653-662 and the handlers of lines 700-704
SyncBegin(hazard) ==
  StrategyBegin("sync_queued", "sync_running", "sync_returned", SyncExcept, hazard)

\* merge_videos_sync, lines 664-704
SyncRun(outcome, size, gone) ==
  StrategyRun("sync_running", "sync_returned", "sync",
              SyncSuccess(video_files, output_path, fs'), SyncFfmpegError, SyncExcept,
              outcome, size, gone)

(***************************************************************************)
(* The handlers after their awaits.                                        *)
(***************************************************************************)
\* NeedsFallback with the test inverted
NeedsFallbackInverted(r) == r.status = "success"

\* if result["status"] == "error": fall back to merge_videos_sync
NeedsFallback(r) == r.status = "error"

\* ManualResponse giving the message of the first attempt on failure
ManualResponseOfFast(r, today, files) ==
  IF r.status = "success"
  THEN [code |-> 200, level |-> "none", status |-> "success", message |-> r.message,
        output_file |-> r.output_file, output_size |-> r.output_size,
        input_files |-> Names(files)]
  ELSE ErrorResponse(500, calls[1].message)

\* the JSONResponse of merge_today_videos for the final result
ManualResponse(r, today, files) ==
  IF r.status = "success"
  THEN [code |-> 200, level |-> "none", status |-> "success", message |-> r.message,
        output_file |-> r.output_file, output_size |-> r.output_size,
        input_files |-> Names(files)]
  ELSE ErrorResponse(500, r.message)

\* what merge_today_videos_job logs for the final result
JobOutcome(r, today, files) ==
  IF r.status = "success"
  THEN [code |-> 0, level |-> "info", status |-> "success", message |-> r.message,
        output_file |-> r.output_file, output_size |-> r.output_size,
        input_files |-> <<>>]
  ELSE LogOutcome("error", r.message)

\* a handler resumes with the result of merge_videos_fast
AfterFast(k, final) ==
  /\ pc = "fast_returned"
  /\ kind = k
  /\ IF NeedsFallback(result)
     THEN /\ pc' = "sync_queued"
          /\ calls' = Append(calls, Call("merge_videos_sync", video_files, output_path))
          /\ response' = response
     ELSE /\ pc' = "done"
          /\ calls' = calls
          /\ response' = final
  /\ scheduler' = Fired(k, pc')
  /\ UNCHANGED <<rootExists, fs, tmp, run, kind, date_now, today_str,
                 video_files, output_path, result, concat_file, fs0, tmp0, raised,
                 escaped>>
  /\ UNCHANGED restVars

\* SyncResumed when a failed re-encode is tried once more
SyncResumedRetrying(r, n) == IF r.status = "error" /\ n < 3 THEN "sync_queued" ELSE "done"

\* where a handler goes with the result of merge_videos_sync after n
\* invocations: the result is not looked at before the response is built
SyncResumed(r, n) == "done"

\* a handler resumes with the result of merge_videos_sync
AfterSync(k, final) ==
  /\ pc = "sync_returned"
  /\ kind = k
  /\ pc' = SyncResumed(result, Len(calls))
  /\ IF pc' = "done"
     THEN /\ response' = final
          /\ calls' = calls
     ELSE /\ response' = response
          /\ calls' = Append(calls, Call("merge_videos_sync", video_files, output_path))
  /\ scheduler' = Fired(k, pc')
  /\ UNCHANGED <<rootExists, fs, tmp, run, kind, date_now, today_str,
                 video_files, output_path, result, concat_file, fs0, tmp0,
                 raised, escaped>>
  /\ UNCHANGED restVars

\* merge_today_videos, lines 784-808
ManualAfterFast == AfterFast("manual", ManualResponse(result, today_str, video_files))

ManualAfterSync == AfterSync("manual", ManualResponse(result, today_str, video_files))

\* merge_today_videos_job, lines 136-151
JobAfterFast == AfterFast("job", JobOutcome(result, today_str, video_files))

JobAfterSync == AfterSync("job", JobOutcome(result, today_str, video_files))

\* no orchestration run has started on the tree t
MergeInit(exists, t) ==
  /\ rootExists = exists
  /\ fs = [p \in t |-> Original]
  /\ tmp = <<>>
  /\ run = 0
  /\ kind = "none"
  /\ pc = "idle"
  /\ date_now = Text(FALSE, <<>>)
  /\ today_str = <<>>
  /\ video_files = <<>>
  /\ output_path = NoFile
  /\ result = NoResult
  /\ concat_file = 0
  /\ response = NoResponse
  /\ calls = <<>>
  /\ fs0 = fs
  /\ tmp0 = tmp
  /\ raised = FALSE
  /\ escaped = FALSE
  /\ scheduler = Started

(***************************************************************************)
(* The file store: the two managed trees, the path check of the endpoints  *)
(* and the endpoints that take a path or list files by date.  A path is    *)
(* the sequence of its components, absolute from "/".                      *)
(***************************************************************************)
\* most file-store requests in one behaviour
MaxRequests == 2

\* most files under STATICFILES_DIR when the first request arrives
MaxStoreFiles == 2

App == <<"a", "p", "p">>

N8n == <<"n", "8", "n", "_", "f", "f", "m", "p", "e", "g">>

\* a directory beside STATICFILES_DIR whose name begins with its name
N8nOld == N8n \o <<"_", "o", "l", "d">>

Yt == <<"y", "t">>

\* a directory beside yt whose name begins with its name
YtOld == Yt \o <<"_", "o", "l", "d">>

Dot == <<".">>

DotDot == <<".", ".">>

S1 == <<"s", "1">>

\* a file of the application directory, outside both trees
Secret == <<".", "e", "n", "v">>

Clip == <<"v">> \o ExtMp4

Missing == <<"m", "i", "s", "s">>

\* the working directory of the process
Cwd == <<App>>

\* STATICFILES_DIR.resolve()
StaticRoot == Cwd \o <<N8n>>

\* Path("yt").resolve()
YtRoot == Cwd \o <<Yt>>

BadDate == <<"2", "0", "2", "4", "-", "1", "3", "-", "4", "0">>

LeapDate == <<"2", "0", "2", "4", "-", "0", "2", "-", "2", "9">>

\* a name whose only date token is no calendar date
NameBadDate == <<"x", "_">> \o BadDate \o ExtMp4

\* a name with two date tokens
NameTwoDates == <<"e", "_">> \o Date2 \o <<"_">> \o Date1 \o <<".", "t", "x", "t">>

\* a name whose first date token is no calendar date and whose second is
NameBadThenGood == <<"k", "_">> \o BadDate \o <<"_">> \o Date1 \o ExtMp4

\* a name without a date token
NameNoDate == <<"r", ".", "t", "x", "t">>

\* a name whose date token has digits on both sides
NameLong == <<"1">> \o Date1 \o <<"1">> \o ExtMp4

NameLeap == <<"p", "_">> \o LeapDate \o ExtMp4

\* the files STATICFILES_DIR may hold when the first request arrives
StoreCatalog ==
  { StaticRoot \o <<n>> :
      n \in {Name(FileA), Name(FileC), Name(FileTxt), NameBadDate, NameTwoDates,
             NameBadThenGood, NameNoDate, NameLong, NameLeap} }
    \cup {StaticRoot \o <<S1, Name(FileS1)>>}

\* the files outside STATICFILES_DIR
Outside ==
  { Cwd \o <<N8nOld, Name(FileA)>>, YtRoot \o <<Clip>>, Cwd \o <<YtOld, Clip>>,
    Cwd \o <<Secret>> }

\* p lies below dir
Under(dir, p) == Len(p) > Len(dir) /\ SubSeq(p, 1, Len(dir)) = dir

\* a disk with the files given, the directories above them and the two roots,
\* which app.mount(StaticFiles(directory=...)) requires at start
DiskOf(files) ==
  LET anchors == files \cup {StaticRoot \o <<Dot>>, YtRoot \o <<Dot>>}
      above == UNION {{SubSeq(p, 1, k) : k \in 1..(Len(p) - 1)} : p \in anchors}
  IN [p \in files \cup above |-> IF p \in files THEN "file" ELSE "dir"]

\* a path a client sends: relative, or absolute when anchor
Rel(parts) == [anchor |-> FALSE, parts |-> parts]

Abs(parts) == [anchor |-> TRUE, parts |-> parts]

\* the paths and file names the model's clients send
UserPaths ==
  { Rel(<<Name(FileA)>>), Rel(<<S1>>), Rel(<<S1, Name(FileS1)>>), Rel(<<Clip>>),
    Rel(<<Dot>>), Rel(<<Missing>>), Rel(<<Missing, Clip>>), Rel(<<>>),
    Rel(<<DotDot, N8nOld, Name(FileA)>>), Rel(<<DotDot, N8nOld>>),
    Rel(<<DotDot, N8n, Name(FileA)>>), Rel(<<DotDot, Yt, Clip>>),
    Rel(<<DotDot, YtOld, Clip>>), Rel(<<DotDot, Secret>>), Abs(Cwd \o <<Secret>>) }

\* root / path of pathlib: an absolute right operand replaces the left one
Join(root, p) == IF p.anchor THEN p.parts ELSE root \o p.parts

\* Path.resolve() without symbolic links: "." is dropped, ".." drops the
\* component before it and stays at "/"
RECURSIVE ResolveFrom(_, _)
ResolveFrom(done, parts) ==
  IF parts = <<>> THEN done
  ELSE IF Head(parts) = Dot THEN ResolveFrom(done, Tail(parts))
  ELSE IF Head(parts) = DotDot
    THEN ResolveFrom(IF done = <<>> THEN <<>> ELSE SubSeq(done, 1, Len(done) - 1),
                     Tail(parts))
  ELSE ResolveFrom(Append(done, Head(parts)), Tail(parts))

Resolve(parts) == ResolveFrom(<<>>, parts)

\* str(path) of an absolute path
RECURSIVE Str(_)
Str(parts) ==
  IF parts = <<>> THEN <<>> ELSE <<"/">> \o Head(parts) \o Str(Tail(parts))

\* str.startswith
StartsWith(s, prefix) == Len(s) >= Len(prefix) /\ SubSeq(s, 1, Len(prefix)) = prefix

\* str(target_path).startswith(str(ROOT.resolve()))
PathCheck(root, target) == StartsWith(Str(target), Str(root))

\* what an endpoint did: the disk it leaves, what it touched, its status code
Done(d, t, code) == [disk |-> d, touched |-> t, code |-> code, files |-> <<>>]

Reads(paths) == {<<"read", p>> : p \in paths}

\* shutil.rmtree(target) or target.unlink()
Remove(d, target) ==
  [p \in {q \in DOMAIN d : q # target /\ ~Under(target, q)} |-> d[p]]

Removed(d, target) == {<<"delete", q>> : q \in DOMAIN d \ DOMAIN Remove(d, target)}

\* the target of a request and its checks, as delete_item makes them
DeleteOne(d, root, p) ==
  LET target == Resolve(Join(root, p))
  IN IF ~PathCheck(root, target) THEN Done(d, {}, 403)
     ELSE IF target \notin DOMAIN d THEN Done(d, {}, 404)
     ELSE Done(Remove(d, target), Removed(d, target), 303)

\* POST /delete
delete_item(d, p) == DeleteOne(d, StaticRoot, p)

\* POST /delete-multiple: every path is tried, the answer is the redirect
RECURSIVE delete_multiple(_, _)
delete_multiple(d, selected_files) ==
  IF selected_files = <<>> THEN Done(d, {}, 303)
  ELSE LET one == DeleteOne(d, StaticRoot, Head(selected_files))
           rest == delete_multiple(one.disk, Tail(selected_files))
       IN Done(rest.disk, one.touched \cup rest.touched, 303)

\* GET /folder/{path}: item.relative_to(STATICFILES_DIR) raises ValueError
\* for the first item, as the item is absolute and STATICFILES_DIR is not
browse_folder(d, p) ==
  LET target == Resolve(Join(StaticRoot, p))
  IN IF ~PathCheck(StaticRoot, target) THEN Done(d, {}, 403)
     ELSE IF target \notin DOMAIN d \/ d[target] # "dir" THEN Done(d, {}, 404)
     ELSE IF \E q \in DOMAIN d : Under(target, q) /\ Len(q) = Len(target) + 1
       THEN Done(d, Reads({target}), 500)
     ELSE Done(d, Reads({target}), 200)

\* POST /download-multiple: files are added to the archive; a directory with
\* a file raises at relative_to; HTTPException(400) is caught as a 500
RECURSIVE download_multiple(_, _)
download_multiple(d, selected_files) ==
  IF selected_files = <<>> THEN Done(d, {}, 200)
  ELSE
    LET target == Resolve(Join(StaticRoot, Head(selected_files)))
        rest == download_multiple(d, Tail(selected_files))
    IN IF ~PathCheck(StaticRoot, target) \/ target \notin DOMAIN d THEN rest
       ELSE IF d[target] = "file"
         THEN Done(d, Reads({target}) \cup rest.touched, rest.code)
       ELSE IF \E q \in DOMAIN d : Under(target, q) /\ d[q] = "file"
         THEN Done(d, Reads({target}), 500)
       ELSE Done(d, Reads({target}) \cup rest.touched, rest.code)

\* POST /api/yt/files: yt_dir.mkdir(exist_ok=True), then open(yt_dir /
\* file.filename, "wb") with no check of the path
upload_file_to_yt(d, p) ==
  LET made == IF YtRoot \in DOMAIN d THEN d ELSE d @@ (YtRoot :> "dir")
      target == Resolve(Join(YtRoot, p))
      parent == SubSeq(target, 1, Len(target) - 1)
  IN IF Cwd \notin DOMAIN d \/ (YtRoot \in DOMAIN d /\ d[YtRoot] # "dir")
       THEN Done(d, {}, 500)
     ELSE IF p.parts = <<>> THEN Done(made, {}, 400)
     ELSE IF \E k \in 1..Len(Join(YtRoot, p)) :
               LET step == Resolve(SubSeq(Join(YtRoot, p), 1, k - 1))
               IN step # <<>> /\ (step \notin DOMAIN made \/ made[step] # "dir")
       THEN Done(made, {}, 500)
     ELSE IF target \in DOMAIN made /\ made[target] = "dir" THEN Done(made, {}, 500)
     ELSE Done([q \in DOMAIN made \cup {target} |-> IF q = target THEN "file" ELSE made[q]],
               {<<"write", target>>}, 201)

\* GET /api/yt/files/{filename}
get_file_url(d, p) ==
  LET target == Resolve(Join(YtRoot, p))
  IN IF ~PathCheck(YtRoot, target) THEN Done(d, {}, 403)
     ELSE IF target \notin DOMAIN d \/ d[target] # "file" THEN Done(d, {}, 404)
     ELSE Done(d, Reads({target}), 200)

\* DELETE /api/yt/files/{filename}
delete_file_from_yt(d, p) ==
  LET target == Resolve(Join(YtRoot, p))
  IN IF ~PathCheck(YtRoot, target) THEN Done(d, {}, 403)
     ELSE IF target \notin DOMAIN d THEN Done(d, {}, 404)
     ELSE IF d[target] # "file" THEN Done(d, {}, 400)
     ELSE Done(Remove(d, target), {<<"delete", target>>}, 200)

\* the files below a directory
FilesUnder(d, dir) == {q \in DOMAIN d : Under(dir, q) /\ d[q] = "file"}

\* one step of the stable sort of a listing by file name
RECURSIVE InsertByLast(_, _)
InsertByLast(sorted, x) ==
  IF sorted = <<>> THEN <<x>>
  ELSE IF StrLess(x[Len(x)], Head(sorted)[Len(Head(sorted))]) THEN <<x>> \o sorted
  ELSE <<Head(sorted)>> \o InsertByLast(Tail(sorted), x)

RECURSIVE SortListing(_, _)
SortListing(sorted, rest) ==
  IF rest = <<>> THEN sorted
  ELSE SortListing(InsertByLast(sorted, Head(rest)), Tail(rest))

\* GET /api/yt/files: items is the order rglob enumerates in
list_yt_files(d, items) ==
  IF YtRoot \notin DOMAIN d THEN Done(d, {}, 404)
  ELSE [Done(d, Reads(Range(items)), 200) EXCEPT !.files = SortListing(<<>>, items)]

\* current_date - timedelta(days=1); ok = FALSE stands for OverflowError
PrevDay(dt) ==
  IF dt.d > 1 THEN [dt EXCEPT !.d = dt.d - 1]
  ELSE IF dt.m > 1 THEN [dt EXCEPT !.m = dt.m - 1, !.d = DaysIn(dt.y, dt.m - 1)]
  ELSE IF dt.y > 1 THEN [dt EXCEPT !.y = dt.y - 1, !.m = 12, !.d = 31]
  ELSE NoDate

\* the loop of get_yesterday_files over rglob("*"), lines 592-616
RECURSIVE CollectByDate(_, _)
CollectByDate(items, yesterday_str) ==
  IF items = <<>> THEN <<>>
  ELSE (IF /\ DateSearch(Head(items)[Len(Head(items))]) # <<>>
           /\ DateSearch(Head(items)[Len(Head(items))]) = yesterday_str
        THEN <<Head(items)>> ELSE <<>>)
         \o CollectByDate(Tail(items), yesterday_str)

\* GET /api/files/yesterday: now is what datetime.now() gives, items the
\* order rglob enumerates the files in
get_yesterday_files(d, dn, now, items) ==
  LET current_date == IF Truthy(dn) THEN Strptime(dn.text) ELSE now
      yesterday == PrevDay(current_date)
  IN IF ~current_date.ok THEN Done(d, {}, 400)
     ELSE IF ~yesterday.ok THEN Done(d, {}, 500)
     ELSE IF StaticRoot \notin DOMAIN d THEN Done(d, {}, 404)
     ELSE LET found == CollectByDate(items, Strftime(yesterday))
          IN [Done(d, Reads(Range(found)), 200) EXCEPT !.files = SortListing(<<>>, found)]

NoReply ==
  [op |-> "none", root |-> <<>>, code |-> 0, files |-> <<>>, date_now |-> Text(FALSE, <<>>),
   now |-> NoDate, before |-> <<>>]

\* the file store when the application has started with these files in
\* STATICFILES_DIR
StoreInit(tree) ==
  /\ disk = DiskOf(tree \cup Outside)
  /\ touched = {}
  /\ reply = NoReply
  /\ requests = 0

\* a file-store request is served
Serve(op, root, out, dn, now) ==
  /\ requests < MaxRequests
  /\ requests' = requests + 1
  /\ disk' = out.disk
  /\ touched' = out.touched
  /\ reply' = [op |-> op, root |-> root, code |-> out.code, files |-> out.files,
               date_now |-> dn, now |-> now, before |-> disk]
  /\ UNCHANGED mergeVars
  /\ UNCHANGED poolVars

NoText == Text(FALSE, <<>>)

DeleteItem(p) == Serve("delete_item", StaticRoot, delete_item(disk, p), NoText, NoDate)

DeleteMultiple(ps) ==
  Serve("delete_multiple", StaticRoot, delete_multiple(disk, ps), NoText, NoDate)

BrowseFolder(p) == Serve("browse_folder", StaticRoot, browse_folder(disk, p), NoText, NoDate)

DownloadMultiple(ps) ==
  Serve("download_multiple", StaticRoot,
        IF ps = <<>> THEN Done(disk, {}, 500) ELSE download_multiple(disk, ps),
        NoText, NoDate)

ListYtFiles(items) == Serve("list_yt_files", YtRoot, list_yt_files(disk, items), NoText, NoDate)

UploadFileToYt(p) ==
  Serve("upload_file_to_yt", YtRoot, upload_file_to_yt(disk, p), NoText, NoDate)

GetFileUrl(p) == Serve("get_file_url", YtRoot, get_file_url(disk, p), NoText, NoDate)

DeleteFileFromYt(p) ==
  Serve("delete_file_from_yt", YtRoot, delete_file_from_yt(disk, p), NoText, NoDate)

GetYesterdayFiles(dn, now, items) ==
  Serve("get_yesterday_files", StaticRoot, get_yesterday_files(disk, dn, now, items), dn, now)

\* the values of ?date_now= of GET /api/files/yesterday
YesterdayInputs ==
  DateInputs \cup
    { Text(TRUE, <<"2", "0", "2", "4", "-", "5", "-", "2">>),
      Text(TRUE, <<"2", "0", "2", "4", "-", "0", "3", "-", "0", "1">>),
      Text(TRUE, <<"2", "0", "2", "4", "-", "0", "5", "-", "0", "3">>) }

\* the lists of paths the model's clients send
Selections ==
  {<<>>} \cup {<<p>> : p \in UserPaths}
    \cup { <<Rel(<<Name(FileA)>>), Rel(<<DotDot, Secret>>)>>,
           <<Rel(<<DotDot, N8nOld, Name(FileA)>>), Rel(<<S1>>)>> }

StoreTrees == {t \in SUBSET StoreCatalog : Cardinality(t) <= MaxStoreFiles}

(***************************************************************************)
(* Concurrent runs: handlers are coroutines of one event loop, strategies  *)
(* run on the threads of the executor.  A task is one orchestration run;   *)
(* it holds the locals of its handler.                                     *)
(***************************************************************************)
\* most orchestration runs started in one behaviour of the pool
MaxTasks == 3

\* ThreadPoolExecutor(max_workers=2)
max_workers == 2

\* the ThreadPoolExecutor objects the module creates, at line 33 and line 638
Executors == {1, 2}

\* ExecutorOf when a handler kept the executor bound at the time it was defined
ExecutorOfEarlyBound(k) == IF k = "job" THEN 1 ELSE 2

\* the object the global name executor gives when a handler runs: the
\* assignment of line 638 has replaced the one of line 33 for both handlers
ExecutorOf(k) == 2

NoExecutor == [queue |-> <<>>, busy |-> {}]

\* what two transcoders writing one path at the same time may leave there
Mixed(n, method, inputs, size) ==
  [kind |-> "mixed", run |-> n, method |-> method, inputs |-> inputs, size |-> size]

\* the pool at rest
PoolInit ==
  /\ tasks = <<>>
  /\ executors = [e \in Executors |-> NoExecutor]
  /\ finished = <<>>

\* one order in which rglob may enumerate the files: the names of the files
\* of the pool's trees all differ, so the sorted list does not depend on it
RECURSIVE AnyOrder(_)
AnyOrder(files) ==
  IF files = {} THEN <<>>
  ELSE LET f == CHOOSE x \in files : TRUE IN <<f>> \o AnyOrder(files \ {f})

\* what the environment does to the strategies of the pool
PoolHazards == {"ok", "create_fails"}

PoolOutcomes == {"ok", "ffmpeg_error"}

\* the dates a handler of the pool may be triggered for
PoolDates(k) == IF k = "job" THEN {Date1} ELSE {Date1, Date2}

Running == {"fast_running", "sync_running"}

\* the tasks whose transcoder is running
Transcoding == {t \in DOMAIN tasks : tasks[t].pc \in Running}

\* the method of the attempt a task is in
MethodAt(at) == IF at \in {"fast_queued", "fast_running", "fast_returned"} THEN "fast" ELSE "sync"

\* the number of the attempt a task is in: 1 fast copy, 2 re-encode
Attempt(at) == IF MethodAt(at) = "fast" THEN 1 ELSE 2

\* loop.run_in_executor(executor, fn, video_files, output_path)
Submit(ex, k, t) ==
  [ex EXCEPT ![ExecutorOf(k)].queue = Append(ex[ExecutorOf(k)].queue, t)]

\* a handler runs from its start to its first await: date, discovery, sort,
\* and merge_videos_fast handed to the executor
PoolTrigger(k, d, items) ==
  LET st == IF k = "manual"
            THEN ManualDiscover(ManualDate(Text(TRUE, d), NoDate, rootExists), items, FALSE)
            ELSE JobDiscover(JobDate(Strptime(d), rootExists), items, FALSE)
      t == Len(tasks) + 1
  IN /\ Len(tasks) < MaxTasks
     /\ rootExists
     /\ k = "job" => \A u \in DOMAIN tasks : tasks[u].kind = "job" => tasks[u].pc = "done"
     /\ st.pc = "fast_queued"
     /\ tasks' = Append(tasks, [kind |-> k, pc |-> st.pc, today_str |-> st.today_str,
                                video_files |-> st.video_files,
                                output_path |-> st.output_path, result |-> NoResult,
                                concat_file |-> 0, raced |-> FALSE, status |-> "none"])
     /\ executors' = Submit(executors, k, t)
     /\ UNCHANGED <<rootExists, fs, tmp, finished>>
     /\ UNCHANGED runVars
     /\ UNCHANGED storeVars

\* the tasks whose transcoder writes the path of task t with other content
Rivals(t) ==
  {u \in Transcoding \ {t} :
     /\ tasks[u].output_path = tasks[t].output_path
     /\ <<tasks[u].video_files, MethodAt(tasks[u].pc)>>
          # <<tasks[t].video_files, MethodAt(tasks[t].pc)>>}

\* a free thread of executor e takes the first queued call: the strategy
\* writes its manifest and starts the transcoder, or returns its error
PoolStart(e, hazard) ==
  /\ executors[e].queue # <<>>
  /\ Cardinality(executors[e].busy) < max_workers
  /\ LET t == Head(executors[e].queue)
         name == FreshName(tmp)
         begun == [tasks EXCEPT ![t].pc = IF MethodAt(tasks[t].pc) = "fast"
                                          THEN "fast_running" ELSE "sync_running",
                                ![t].concat_file = name]
     IN /\ tmp' = WriteManifest(tmp, name, <<t, Attempt(tasks[t].pc)>>,
                                tasks[t].video_files, hazard)
        /\ IF hazard = "ok"
           THEN /\ tasks' = [u \in DOMAIN begun |->
                               IF (u = t /\ Rivals(t) # {}) \/ u \in Rivals(t)
                               THEN [begun[u] EXCEPT !.raced = TRUE] ELSE begun[u]]
                /\ executors' = [executors EXCEPT ![e].queue = Tail(@),
                                                  ![e].busy = @ \cup {t}]
           ELSE /\ tasks' = [tasks EXCEPT
                               ![t].pc = IF MethodAt(tasks[t].pc) = "fast"
                                         THEN "fast_returned" ELSE "sync_returned",
                               ![t].result = IF MethodAt(tasks[t].pc) = "fast"
                                             THEN FastExcept ELSE SyncExcept]
                /\ executors' = [executors EXCEPT ![e].queue = Tail(@)]
  /\ UNCHANGED <<rootExists, fs, finished>>
  /\ UNCHANGED runVars
  /\ UNCHANGED storeVars

\* the transcoder of task t ends and the strategy returns: the stat of the
\* output, the unlink of the manifest; mixed is drawn when another transcoder
\* wrote other content to the same path while this one ran
PoolFinish(e, t, outcome, size, mixed) ==
  /\ t \in executors[e].busy
  /\ outcome # "ok" => size = 1
  /\ mixed => (tasks[t].raced /\ outcome = "ok")
  /\ LET me == tasks[t]
         method == MethodAt(me.pc)
         written == FfmpegRun(fs, me.output_path, t, method, me.video_files, outcome, size)
         left == IF mixed
                 THEN [written EXCEPT ![me.output_path] =
                         Mixed(t, method, me.video_files, size)]
                 ELSE written
         ret == IF outcome = "ok"
                THEN (IF method = "fast" THEN FastSuccess(me.video_files, me.output_path, left)
                      ELSE SyncSuccess(me.video_files, me.output_path, left))
                ELSE IF outcome = "os_error"
                THEN (IF method = "fast" THEN FastExcept ELSE SyncExcept)
                ELSE (IF method = "fast" THEN FastFfmpegError ELSE SyncFfmpegError)
     IN /\ fs' = left
        /\ tmp' = Unlink(tmp, me.concat_file)
        /\ tasks' = [tasks EXCEPT ![t].pc = IF method = "fast" THEN "fast_returned"
                                            ELSE "sync_returned",
                                  ![t].result = ret,
                                  ![t].concat_file = 0]
        /\ finished' = IF outcome = "ok"
                       THEN [p \in DOMAIN finished \cup {me.output_path} |->
                               IF p = me.output_path THEN written[p] ELSE finished[p]]
                       ELSE finished
  /\ executors' = [executors EXCEPT ![e].busy = @ \ {t}]
  /\ UNCHANGED rootExists
  /\ UNCHANGED runVars
  /\ UNCHANGED storeVars

\* the event loop resumes the handler of task t with the result of its
\* await: the fallback is handed to the executor, or the run ends
PoolResume(t) ==
  /\ t \in DOMAIN tasks
  /\ tasks[t].pc \in {"fast_returned", "sync_returned"}
  /\ IF tasks[t].pc = "fast_returned" /\ NeedsFallback(tasks[t].result)
     THEN /\ tasks' = [tasks EXCEPT ![t].pc = "sync_queued", ![t].result = NoResult]
          /\ executors' = Submit(executors, tasks[t].kind, t)
     ELSE /\ tasks' = [tasks EXCEPT
                         ![t].pc = "done",
                         ![t].result = NoResult,
                         ![t].video_files = <<>>,
                         ![t].status =
                           IF tasks[t].kind = "manual"
                           THEN ManualResponse(tasks[t].result, tasks[t].today_str,
                                               tasks[t].video_files).status
                           ELSE JobOutcome(tasks[t].result, tasks[t].today_str,
                                           tasks[t].video_files).status]
          /\ executors' = executors
  /\ UNCHANGED <<rootExists, fs, tmp, finished>>
  /\ UNCHANGED runVars
  /\ UNCHANGED storeVars

\* whoever fills the tree puts another video of Date1 there
Arrive ==
  /\ FileB \notin DOMAIN fs
  /\ fs' = fs @@ (FileB :> Original)
  /\ UNCHANGED <<rootExists, tmp, tasks, executors, finished>>
  /\ UNCHANGED runVars
  /\ UNCHANGED storeVars

\* the sizes the transcoder's output may have in the pool
PoolSizes == {1}

PoolSpecInit ==
  /\ MergeInit(TRUE, {FileA, FileC})
  /\ StoreInit({})
  /\ PoolInit

PoolNext ==
  \/ /\ Len(tasks) < MaxTasks
     /\ \E k \in {"manual", "job"} : \E d \in PoolDates(k) :
          PoolTrigger(k, d, AnyOrder(DOMAIN fs))
  \/ \E e \in Executors, hazard \in PoolHazards : PoolStart(e, hazard)
  \/ \E e \in Executors, t \in DOMAIN tasks :
       \E outcome \in PoolOutcomes, size \in PoolSizes, mixed \in BOOLEAN :
         PoolFinish(e, t, outcome, size, mixed)
  \/ \E t \in DOMAIN tasks : PoolResume(t)
  \/ Arrive

PoolSpec == PoolSpecInit /\ [][PoolNext]_<<mergeVars, restVars>>

\* the file store alone: no orchestration run starts
StoreSpecInit ==
  /\ MergeInit(TRUE, {})
  /\ \E t \in StoreTrees : StoreInit(t)
  /\ PoolInit

StoreNext ==
  \/ \E p \in UserPaths : DeleteItem(p)
  \/ \E ps \in Selections : DeleteMultiple(ps)
  \/ \E p \in UserPaths : BrowseFolder(p)
  \/ \E ps \in Selections : DownloadMultiple(ps)
  \/ /\ requests < MaxRequests
     /\ \E items \in Enumerations(FilesUnder(disk, YtRoot)) : ListYtFiles(items)
  \/ \E p \in UserPaths : UploadFileToYt(p)
  \/ \E p \in UserPaths : GetFileUrl(p)
  \/ \E p \in UserPaths : DeleteFileFromYt(p)
  \/ /\ requests < MaxRequests
     /\ \E dn \in YesterdayInputs :
          \E now \in (IF Truthy(dn) THEN {NoDate} ELSE Nows) :
            \E items \in Enumerations(FilesUnder(disk, StaticRoot)) :
              GetYesterdayFiles(dn, now, items)

StoreSpec == StoreSpecInit /\ [][StoreNext]_<<mergeVars, restVars>>

\* lifespan, lines 56-58: the application stops; the model stops it between
\* runs only
Shutdown ==
  /\ pc \in {"idle", "done"}
  /\ scheduler.running
  /\ scheduler' = [scheduler EXCEPT !.running = FALSE]
  /\ UNCHANGED <<rootExists, fs, tmp, run, kind, pc, date_now, today_str, video_files,
                 output_path, result, concat_file, response, calls, fs0, tmp0, raised,
                 escaped>>
  /\ UNCHANGED restVars

\* the cron trigger fires
JobFire == \E now \in Nows : JobStart(now)

(***************************************************************************)
(* The specification.                                                      *)
(***************************************************************************)
Trees == {t \in SUBSET Catalog : Cardinality(t) <= MaxFiles}

Init ==
  /\ \E exists \in BOOLEAN, t \in Trees :
       /\ (~exists => t = {})
       /\ MergeInit(exists, t)
  /\ StoreInit({})
  /\ PoolInit

Next ==
  \/ \E dn \in DateInputs :
       \E now \in (IF Truthy(dn) THEN {NoDate} ELSE Nows) : ManualStart(dn, now)
  \/ JobFire
  \/ /\ pc = "discovering"
     /\ \E items \in Enumerations(DOMAIN fs), fault \in BOOLEAN :
          (fault => DOMAIN fs # {}) /\ ManualScan(items, fault)
  \/ /\ pc = "discovering"
     /\ \E items \in Enumerations(DOMAIN fs), fault \in BOOLEAN :
          (fault => DOMAIN fs # {}) /\ JobScan(items, fault)
  \/ \E hazard \in Hazards : FastBegin(hazard)
  \/ \E outcome \in Outcomes, size \in Sizes, gone \in BOOLEAN :
       FastRun(outcome, size, gone)
  \/ ManualAfterFast
  \/ JobAfterFast
  \/ \E hazard \in Hazards : SyncBegin(hazard)
  \/ \E outcome \in Outcomes, size \in Sizes, gone \in BOOLEAN :
       SyncRun(outcome, size, gone)
  \/ ManualAfterSync
  \/ JobAfterSync
  \/ Shutdown

vars == <<mergeVars, restVars>>

Spec == Init /\ [][Next]_vars

\* the steps of a run that has started: the event loop runs a ready handler
\* (a discovery is one of the steps of Next, whatever the order of rglob), a
\* pool thread takes a queued call, and a transcoder call ends
RunStep ==
  \/ /\ pc = "discovering"
     /\ \E items \in {AnyOrder(DOMAIN fs)} :
          ManualScan(items, FALSE) \/ JobScan(items, FALSE)
  \/ \E hazard \in Hazards : FastBegin(hazard) \/ SyncBegin(hazard)
  \/ \E outcome \in Outcomes, size \in Sizes, gone \in BOOLEAN :
       FastRun(outcome, size, gone) \/ SyncRun(outcome, size, gone)
  \/ ManualAfterFast
  \/ JobAfterFast
  \/ ManualAfterSync
  \/ JobAfterSync

\* the trees of the runs whose end is checked
LiveTrees == {{}, {FileA}, {FileA, FileC}}

LiveInit ==
  /\ \E exists \in BOOLEAN, t \in LiveTrees : MergeInit(exists, t)
  /\ StoreInit({})
  /\ PoolInit

\* Spec with a started run never left waiting for ever
LiveSpec == LiveInit /\ [][Next]_vars /\ WF_vars(RunStep)

(***************************************************************************)
(* Properties.                                                             *)
(***************************************************************************)
Returned(c) == c.status \in {"success", "error"}

Succeeded == \E i \in DOMAIN calls : calls[i].status = "success"

EndsWith(s, t) == Len(s) >= Len(t) /\ SubSeq(s, Len(s) - Len(t) + 1, Len(s)) = t

\* the first substring dddd-dd-dd of a name, "" when it has none
EmbeddedDate(name) ==
  LET at == {i \in 1..Len(name) : DateAt(name, i)}
  IN IF at = {} THEN <<>>
     ELSE SubSeq(name, CHOOSE i \in at : \A j \in at : i <= j,
                 (CHOOSE i \in at : \A j \in at : i <= j) + 9)

\* the files whose name ends in an allowed video extension, in any case
VideoNames ==
  {f \in Files : \E ext \in video_extensions : EndsWith(Lower(Name(f)), ext)}

EmbeddedDates == [f \in Files |-> EmbeddedDate(Name(f))]

\* the videos of a tree that carry date d
VideosOfDate(tree, d) == {f \in tree \cap VideoNames : EmbeddedDates[f] = d}

\* the file named D.mp4 directly under the root
ExpectedOutput(d) ==
  IF \E f \in Files : Path(f) = PathOf(<<>>, d \o ExtMp4)
  THEN CHOOSE f \in Files : Path(f) = PathOf(<<>>, d \o ExtMp4)
  ELSE NoFile

\* C1: in one run merge_videos_sync is invoked only after merge_videos_fast
\* was invoked and returned status error; merge_videos_fast is the first
\* strategy invoked, and nothing is invoked after it succeeded.
C1_FastBeforeReencode ==
  /\ calls # <<>> => calls[1].fn = "merge_videos_fast"
  /\ \A i \in DOMAIN calls :
       calls[i].fn = "merge_videos_sync" =>
         i = 2 /\ calls[1].fn = "merge_videos_fast" /\ calls[1].status = "error"
  /\ (calls # <<>> /\ calls[1].status = "success") => Len(calls) = 1

\* the re-encode strategy runs after a failed fast copy
C1_Witness ==
  /\ pc = "sync_running"
  /\ Len(calls) = 2
  /\ calls[1].status = "error"
  /\ calls[2].fn = "merge_videos_sync"

\* C2: a run on an existing tree without a video of the target date, whose
\* enumeration raises nothing, ends with the not-found outcome (404, or a
\* logged warning of the job) and invokes no strategy: no call, no manifest
\* created, no file written.
C2_NoCandidatesNoMerge ==
  (/\ pc \notin {"idle", "discovering"}
   /\ rootExists
   /\ today_str # <<>>
   /\ ~raised
   /\ VideosOfDate(DOMAIN fs0, today_str) = {})
  => /\ pc = "done"
     /\ IF kind = "manual" THEN response.code = 404 ELSE response.level = "warning"
     /\ response.message = "no_video_files"
     /\ calls = <<>>
     /\ tmp = tmp0
     /\ fs = fs0

\* a scheduled run found files, none of them a video of the date
C2_Witness ==
  /\ pc = "done"
  /\ kind = "job"
  /\ DOMAIN fs0 # {}
  /\ VideosOfDate(DOMAIN fs0, today_str) = {}
  /\ response.level = "warning"

\* C3: when fast copy failed and re-encode succeeded the run ends in success
\* and the message given to the caller is the one of the re-encode strategy;
\* it is the one of fast copy only when fast copy itself succeeded.
C3_MethodReported ==
  pc = "done" =>
    /\ (Len(calls) = 2 /\ calls[1].status = "error" /\ calls[2].status = "success")
         => (response.status = "success" /\ response.message = "merged"
             /\ (kind = "manual" => response.code = 200))
    /\ response.message = "merged_fast_mode"
         <=> (calls # <<>> /\ calls[1].status = "success")

\* a run that fell back and succeeded
C3_Witness ==
  /\ pc = "done"
  /\ Len(calls) = 2
  /\ calls[2].status = "success"
  /\ response.message = "merged"

\* C4: once an invocation of a strategy has returned, the manifest it
\* created is no longer in the temp directory.
C4_ManifestRemoved ==
  \A id \in DOMAIN tmp :
    tmp[id].owner[1] = run =>
      /\ tmp[id].owner[2] \in DOMAIN calls
      /\ ~Returned(calls[tmp[id].owner[2]])

WellFormedDate(text) ==
  /\ Len(text) = 10
  /\ DateAt(text, 1)
  /\ LET m == 10 * DigitVal(text[6]) + DigitVal(text[7])
         d == 10 * DigitVal(text[9]) + DigitVal(text[10])
         y == 1000 * DigitVal(text[1]) + 100 * DigitVal(text[2])
                + 10 * DigitVal(text[3]) + DigitVal(text[4])
     IN y >= 1 /\ m \in 1..12 /\ d >= 1 /\ d <= DaysIn(y, m)

\* the status codes of the manual trigger, with "malformed" left open
StatusCodes(malformed) ==
  (pc = "done" /\ kind = "manual") =>
    /\ response.code \in {200, 400, 404, 500}
    /\ response.code = 400 <=> malformed
    /\ response.code = 200 <=> Succeeded
    /\ response.code = 404
         <=> (/\ ~malformed
              /\ ~raised
              /\ ~rootExists \/ VideosOfDate(DOMAIN fs0, today_str) = {})
    /\ response.code = 500
         <=> (raised \/ (Len(calls) = 2 /\ ~Succeeded))
    /\ response.code \in {400, 404} => (calls = <<>> /\ tmp = tmp0 /\ fs = fs0)

\* C6: GET /api/files/merge-today answers 200 when a strategy succeeded, 404
\* when the root is missing or no candidate matches, 400 when date_now is not
\* a well-formed YYYY-MM-DD date, 500 when both strategies failed or an
\* exception was raised; with 400 and 404 no strategy is invoked.  (An empty
\* date_now is read as an absent one.)
C6_StatusCodes == StatusCodes(Truthy(date_now) /\ ~WellFormedDate(date_now.text))

\* the same table with 400 for the date_now values the code rejects: the
\* non-empty ones strptime does not parse
C6_StatusCodesAsParsed == StatusCodes(Truthy(date_now) /\ ~Strptime(date_now.text).ok)

\* C7: exactly one strategy produces the file at output_path, a strategy
\* that failed leaves no partial file there, and after a run in which both
\* strategies failed no file written by that run is at output_path.
C7_NoPartialOutput ==
  LET mine == output_path \in DOMAIN fs /\ fs[output_path].run = run
  IN /\ (pc \in {"fast_returned", "sync_queued", "sync_returned", "done"} /\ mine)
          => fs[output_path].kind # "partial"
     /\ (pc = "done" /\ calls # <<>> /\ ~Succeeded) => ~mine
     /\ (pc = "done" /\ Succeeded)
          => /\ mine
             /\ fs[output_path].kind = "merged"
             /\ fs[output_path].method =
                  (IF calls[1].status = "success" THEN "fast" ELSE "sync")

\* a list is ascending by file name
Ascending(files) ==
  \A i \in 1..(Len(files) - 1) : ~StrLess(Name(files[i + 1]), Name(files[i]))

\* C8: the list handed to the strategies is ascending by file name and is
\* the same for every order in which the tree could have been enumerated,
\* also when two candidates in different subdirectories share a file name.
C8_OrderIndependent ==
  \A i \in DOMAIN calls :
    /\ Ascending(calls[i].video_files)
    /\ \A e \in Enumerations(DOMAIN fs0) :
         SortByName(Collect(e, today_str)) = calls[i].video_files

C10_OtherFilesUnchanged ==
  today_str # <<>> =>
    \A f \in (DOMAIN fs \cup DOMAIN fs0) \ {ExpectedOutput(today_str)} :
      f \in DOMAIN fs /\ f \in DOMAIN fs0 /\ fs[f] = fs0[f]

\* a merge for Date1 succeeded and the video of Date2 is as it was
C10_Witness ==
  /\ pc = "done"
  /\ Succeeded
  /\ FileC \in DOMAIN fs
  /\ FileA \in DOMAIN fs
  /\ FileOut1 \in DOMAIN fs
  /\ fs[FileOut1].run = run

\* C11: a run that succeeds leaves at output_path the file this run wrote,
\* also when a file was there before, and the output size it reports is the
\* size of that new file.
C11_RerunOverwrites ==
  (pc = "done" /\ Succeeded) =>
    /\ output_path \in DOMAIN fs
    /\ fs[output_path].kind = "merged"
    /\ fs[output_path].run = run
    /\ response.output_size = fs[output_path].size
    /\ response.output_file = Name(output_path)

\* the second run for a date succeeded over the output of the first, which
\* had another size
C11_Witness ==
  /\ pc = "done"
  /\ Succeeded
  /\ run = 2
  /\ output_path \in DOMAIN fs0
  /\ fs0[output_path].kind = "merged"
  /\ fs0[output_path].run = 1
  /\ fs0[output_path].size # fs[output_path].size
  /\ response.output_size = fs[output_path].size

\* C14: a scheduled run that ended in a failure (root missing, no candidates,
\* both strategies failed, an exception) leaves the job in the scheduler, and
\* while the scheduler runs the next fire starts a run for the date of that
\* fire, whatever date it is.
C14_SchedulerSurvives ==
  (kind = "job" /\ pc = "done" /\ response.status = "error") =>
    /\ JobId \in scheduler.jobs
    /\ (scheduler.running /\ run < MaxRuns) => \A now \in Nows : ENABLED JobStart(now)

\* a scheduled run in which both strategies failed has ended and the trigger
\* can fire again
C14_Witness ==
  /\ kind = "job"
  /\ pc = "done"
  /\ Len(calls) = 2
  /\ response.level = "error"
  /\ scheduler.running
  /\ ENABLED JobFire

\* two states of a handler agree in everything but the form of the outcome
SameRun(a, b) ==
  /\ a.pc = b.pc
  /\ a.today_str = b.today_str
  /\ a.video_files = b.video_files
  /\ a.output_path = b.output_path
  /\ a.raised = b.raised
  /\ a.response.status = b.response.status
  /\ a.response.message = b.response.message

\* C17: on the same tree, for the same date and the same behaviour of the
\* environment, the scheduled job and the manual trigger (without date_now, or
\* with the date of the day as date_now) find the same ordered candidates,
\* hand the same invocations to the executor and end in the same outcome.
C17_SameOrchestration ==
  /\ \A now \in Nows :
       /\ SameRun(JobDate(now, rootExists),
                  ManualDate(Text(FALSE, <<>>), now, rootExists))
       /\ SameRun(JobDate(now, rootExists),
                  ManualDate(Text(TRUE, Strftime(now)), NoDate, rootExists))
  /\ pc = "discovering" =>
       \A items \in Enumerations(DOMAIN fs), fault \in BOOLEAN :
         SameRun(JobDiscover(Current, items, fault),
                 ManualDiscover(Current, items, fault))
  /\ pc \in {"fast_returned", "sync_returned"} =>
       /\ JobOutcome(result, today_str, video_files).status
            = ManualResponse(result, today_str, video_files).status
       /\ JobOutcome(result, today_str, video_files).message
            = ManualResponse(result, today_str, video_files).message
  /\ \A i \in DOMAIN calls :
       /\ calls[i].video_files = video_files
       /\ calls[i].output_path = output_path
       /\ calls[i].fn = (IF i = 1 THEN "merge_videos_fast" ELSE "merge_videos_sync")

\* the scheduled job is about to enumerate a tree with two candidates whose
\* order the sort decides
C17_Witness ==
  /\ kind = "job"
  /\ pc = "discovering"
  /\ today_str = Date1
  /\ {FileA, FileB} \subseteq DOMAIN fs

\* C18: when both strategies failed, the failure given to the caller carries
\* the message merge_videos_sync returned, not the one of merge_videos_fast.
C18_ReencodeMessage ==
  (pc = "done" /\ Len(calls) = 2 /\ calls[2].status = "error") =>
    /\ calls[1].status = "error"
    /\ response.status = "error"
    /\ response.message = calls[2].message
    /\ response.message \in {"ffmpeg_error", "unexpected_error"}
    /\ IF kind = "manual" THEN response.code = 500 ELSE response.level = "error"

\* both transcoder runs failed, each with its own message, on the manual path
C18_Witness ==
  /\ pc = "done"
  /\ kind = "manual"
  /\ Len(calls) = 2
  /\ calls[1].message = "ffmpeg_fast_merge_error"
  /\ calls[2].message = "ffmpeg_error"
  /\ response.code = 500
  /\ response.message = "ffmpeg_error"

\* a date written YYYY-MM-DD
IsoDate(dt) ==
  <<Digits[((dt.y \div 1000) % 10) + 1], Digits[((dt.y \div 100) % 10) + 1],
    Digits[((dt.y \div 10) % 10) + 1], Digits[(dt.y % 10) + 1], "-",
    Digits[(dt.m \div 10) + 1], Digits[(dt.m % 10) + 1], "-",
    Digits[(dt.d \div 10) + 1], Digits[(dt.d % 10) + 1]>>

\* the date a text dddd-dd-dd writes
ReadIso(text) ==
  [ok |-> TRUE,
   y |-> 1000 * DigitVal(text[1]) + 100 * DigitVal(text[2])
           + 10 * DigitVal(text[3]) + DigitVal(text[4]),
   m |-> 10 * DigitVal(text[6]) + DigitVal(text[7]),
   d |-> 10 * DigitVal(text[9]) + DigitVal(text[10])]

\* the calendar day after a date
NextDay(dt) ==
  IF dt.d < DaysIn(dt.y, dt.m) THEN [dt EXCEPT !.d = dt.d + 1]
  ELSE IF dt.m < 12 THEN [dt EXCEPT !.m = dt.m + 1, !.d = 1]
  ELSE [dt EXCEPT !.y = dt.y + 1, !.m = 1, !.d = 1]

\* the files the listing of GET /api/files/yesterday names
Listed == Range(reply.files)

\* the date the last listing looked for
ListingTarget ==
  PrevDay(IF Truthy(reply.date_now) THEN Strptime(reply.date_now.text) ELSE reply.now)

\* C12: a file name matches the target date exactly when its first substring
\* dddd-dd-dd equals the target date written YYYY-MM-DD; a name without such a
\* substring, or whose first one is no calendar date, matches nothing.
C12_MatchFirstToken ==
  (reply.op = "get_yesterday_files" /\ reply.code = 200) =>
    \A f \in FilesUnder(reply.before, StaticRoot) :
      /\ f \in Listed <=> (/\ EmbeddedDate(f[Len(f)]) # <<>>
                            /\ EmbeddedDate(f[Len(f)]) = IsoDate(ListingTarget))
      /\ EmbeddedDate(f[Len(f)]) = <<>> => f \notin Listed
      /\ (EmbeddedDate(f[Len(f)]) # <<>> /\ ~WellFormedDate(EmbeddedDate(f[Len(f)])))
           => f \notin Listed

\* a listing for Date1 of a tree with a name whose date has digits around it
\* and a name whose first date token is 2024-13-40: only the first is listed
C12_Witness ==
  /\ reply.op = "get_yesterday_files"
  /\ reply.code = 200
  /\ IsoDate(ListingTarget) = Date1
  /\ FilesUnder(reply.before, StaticRoot)
       = {StaticRoot \o <<NameLong>>, StaticRoot \o <<NameBadThenGood>>}
  /\ reply.files = <<StaticRoot \o <<NameLong>>>>

\* what GET /api/files/yesterday answers, with "malformed" and the reading of
\* a well-formed date_now left open
YesterdayListing(malformed, current) ==
  reply.op = "get_yesterday_files" =>
    IF malformed THEN reply.code = 400 /\ reply.files = <<>>
    ELSE /\ reply.code \in {200, 404}
         /\ reply.code = 404 <=> StaticRoot \notin DOMAIN reply.before
         /\ reply.code = 404 => reply.files = <<>>
         /\ reply.code = 200 =>
              /\ Listed =
                   {f \in FilesUnder(reply.before, StaticRoot) :
                      /\ EmbeddedDate(f[Len(f)]) # <<>>
                      /\ WellFormedDate(EmbeddedDate(f[Len(f)]))
                      /\ NextDay(ReadIso(EmbeddedDate(f[Len(f)]))) = current}
              /\ Len(reply.files) = Cardinality(Listed)

\* C13: for a date_now written YYYY-MM-DD (or none, read as the current
\* date) GET /api/files/yesterday lists exactly the files under the root, of
\* any extension, whose embedded date is the day before; for any other
\* date_now it answers 400 and lists nothing.
C13_YesterdayListing ==
  YesterdayListing(Truthy(reply.date_now) /\ ~WellFormedDate(reply.date_now.text),
                   IF Truthy(reply.date_now) THEN ReadIso(reply.date_now.text)
                   ELSE reply.now)

\* the same with 400 for the date_now values strptime rejects, and the date
\* strptime reads
C13_YesterdayListingAsParsed ==
  YesterdayListing(Truthy(reply.date_now) /\ ~Strptime(reply.date_now.text).ok,
                   IF Truthy(reply.date_now) THEN Strptime(reply.date_now.text)
                   ELSE reply.now)

\* p is the directory root or lies below it
Inside(root, p) == Len(p) >= Len(root) /\ SubSeq(p, 1, Len(root)) = root

\* C16: whatever path or file name the client sends, a file-store request
\* reads, writes and deletes only entries of its own root, and leaves every
\* entry outside that root as it was.
C16_Confined ==
  reply.op # "none" =>
    /\ \A t \in touched : Inside(reply.root, t[2])
    /\ \A p \in DOMAIN disk \cup DOMAIN reply.before :
         ~Inside(reply.root, p) =>
           /\ p \in DOMAIN disk
           /\ p \in DOMAIN reply.before
           /\ disk[p] = reply.before[p]


(***************************************************************************)
(* The shared pool.                                                        *)
(***************************************************************************)

\* the tasks waiting for a thread
Queued == {t \in DOMAIN tasks : tasks[t].pc \in {"fast_queued", "sync_queued"}}

\* C15: scheduled and manual runs together never have more than 2 transcoder
\* calls executing; every call of either trigger path is queued on or run by
\* the one pool of size 2, a call beyond two waits in its queue, and no call
\* executes outside a thread of the pool
C15_PoolBound ==
  /\ Cardinality(Transcoding) <= 2
  /\ Transcoding = executors[2].busy
  /\ Queued = Range(executors[2].queue)
  /\ executors[1] = NoExecutor

\* a scheduled and a manual call execute while a third one waits
C15_Witness ==
  /\ Cardinality(Transcoding) = 2
  /\ {tasks[t].kind : t \in Transcoding} = {"job", "manual"}
  /\ Queued # {}

\* C19: a trigger that arrives while a run for the same date is in progress
\* starts its own run, and once the transcoders writing an output path have
\* ended, the file there is what the one that ended well last wrote
C19_LastWriterWins ==
  \A p \in DOMAIN finished :
    (\A t \in Transcoding : tasks[t].output_path # p) => fs[p] = finished[p]

\* C20: a running strategy invocation reads the manifest it created itself,
\* listing its own inputs; no two running invocations have the same manifest,
\* and the manifest of a re-encode attempt was created by that attempt
C20_ManifestExclusive ==
  /\ \A t \in Transcoding :
       /\ tasks[t].concat_file \in DOMAIN tmp
       /\ tmp[tasks[t].concat_file].owner = <<t, Attempt(tasks[t].pc)>>
       /\ tmp[tasks[t].concat_file].lines = Manifest(tasks[t].video_files)
       /\ tasks[t].pc = "sync_running" => tmp[tasks[t].concat_file].owner[2] = 2
  /\ \A t, u \in Transcoding : t # u => tasks[t].concat_file # tasks[u].concat_file

\* a re-encode attempt and a fast attempt of another run execute at once
C20_Witness ==
  \E t, u \in Transcoding :
    /\ tasks[t].pc = "sync_running"
    /\ tasks[u].pc = "fast_running"
    /\ tasks[t].concat_file # tasks[u].concat_file


(***************************************************************************)
(* The output among the candidates.                                        *)
(***************************************************************************)

\* C21: no strategy invocation of any run has the run's own output D.mp4 in
\* its input list, also when an earlier run for D has left that file in the
\* tree: the transcoder never reads the file it overwrites
C21_OutputNotInput ==
  \A i \in DOMAIN calls : calls[i].output_path \notin Range(calls[i].video_files)


(***************************************************************************)
(* The end of a run.                                                       *)
(***************************************************************************)

\* the invocations of the current run: one fast copy, then at most one
\* re-encode
AtMostTwoCalls ==
  /\ Len(calls) <= 2
  /\ Len(calls) >= 1 => calls[1].fn = "merge_videos_fast"
  /\ Len(calls) = 2 => calls[2].fn = "merge_videos_sync"

\* C22: a run hands at most two invocations to the transcoder, one fast copy
\* and then at most one re-encode, and when every transcoder invocation ends
\* a run that has started reaches its end, with a success or a failure
C22_TwoCallsAndEnd ==
  /\ []AtMostTwoCalls
  /\ (pc \notin {"idle", "done"}) ~> (pc = "done")

\* a run that tried both strategies has ended
C22_Witness ==
  /\ pc = "done"
  /\ Len(calls) = 2
  /\ calls[2].status \in {"success", "error"}


(***************************************************************************)
(* The root under delete requests.                                         *)
(***************************************************************************)

\* C23: a delete request, POST /delete or POST /delete-multiple, leaves the
\* managed root directory in place, also when a supplied path resolves to
\* the root itself
C23_RootKept ==
  (reply.op \in {"delete_item", "delete_multiple"} /\ StaticRoot \in DOMAIN reply.before)
    => StaticRoot \in DOMAIN disk

====
